---- MODULE Spec2Model ----
(***************************************************************************)
(* cloudflare-ddns (cfddns.py): one process reads config.json, detects the *)
(* public IP through three echo services, compares it with the IP cached   *)
(* in last_ip.txt and, when it differs, patches the zone's A records and   *)
(* rewrites the cache file.                                                *)
(*                                                                         *)
(* Text (response bodies, IP strings, the cache file) is a sequence of     *)
(* one-character strings.  Two process slots exist: slot Scheduled is the  *)
(* periodic invocation, slot Overlapping a second invocation that is only  *)
(* started under SpecOverlap.                                              *)
(***************************************************************************)
EXTENDS Integers, Sequences, FiniteSets, TLC

\* ------------------------------------------------------------------ bounds
\* The wall clock takes the values 0..MaxClock.
MaxClock == 1

\* ----------------------------------------------------------------- strings
\* Python's None for a str | None value.
None == <<"None">>
\* The cache file does not exist.
NoFile == <<"ENOENT">>
\* None for the timedelta | None value.
NoneEt == -1

IsSpace(c) == c = " "

RECURSIVE LStrip(_)
LStrip(s) == IF s = <<>> THEN s
             ELSE IF IsSpace(Head(s)) THEN LStrip(Tail(s)) ELSE s

RECURSIVE RStrip(_)
RStrip(s) == IF s = <<>> THEN s
             ELSE IF IsSpace(s[Len(s)]) THEN RStrip(SubSeq(s, 1, Len(s) - 1)) ELSE s

\* str.strip(): leading and trailing whitespace removed.
Strip(s) == RStrip(LStrip(s))

\* Index of the first "," of s, 0 when there is none.
RECURSIVE FirstComma(_, _)
FirstComma(s, i) == IF i > Len(s) THEN 0
                    ELSE IF s[i] = "," THEN i ELSE FirstComma(s, i + 1)

\* str.split(','): the fields between the commas, always at least one.
RECURSIVE Split(_)
Split(s) == LET k == FirstComma(s, 1) IN
            IF k = 0 THEN <<s>>
            ELSE <<SubSeq(s, 1, k - 1)>> \o Split(SubSeq(s, k + 1, Len(s)))

\* datetime.isoformat() of clock value n: a text without commas or blanks
\* that is different for different n.
IsoFormat(n) == <<"T">> \o [i \in 1..n |-> "+"]

\* datetime.fromisoformat accepts exactly the texts isoformat produces.
IsIso(s) == /\ Len(s) >= 1
            /\ s[1] = "T"
            /\ \A i \in 2..Len(s) : s[i] = "+"

FromIso(s) == Len(s) - 1

\* Fault: the two fields written in the wrong order.
FormatStateSwapped(ip, now) == IsoFormat(now) \o <<",">> \o ip

\* What save_current_ip writes: f"{ip},{datetime.now().isoformat()}".
FormatState(ip, now) == ip \o <<",">> \o IsoFormat(now)

\* `not x` for a str | None value.
Falsy(x) == x = None \/ x = <<>>

\* ------------------------------------------------------------ environment
Procs == {"Scheduled", "Overlapping"}

\* The echo services in the order of the ip_services list.
ip_services == <<"ifconfig.me", "api.ipify.org", "icanhazip.com">>

\* Response bodies an echo service may send with status 200.
Bodies == { <<>>,
            <<" ">>,
            <<"1">>,
            <<" ", "1", " ">>,
            <<"2", " ">>,
            <<"1", ",", "2">> }

\* The IP strings get_current_ip can return.
Ips == { Strip(b) : b \in Bodies }

\* The records of the zone as the provider lists them.
ZoneRecords == { [id |-> "r1", type |-> "A",    name |-> "a.example"],
                 [id |-> "r2", type |-> "AAAA", name |-> "a.example"],
                 [id |-> "r3", type |-> "TXT",  name |-> "c.example"],
                 [id |-> "r4", type |-> "A",    name |-> "b.example"] }

RecordIds == { r.id : r \in ZoneRecords }

\* Content of every record before the program first touches the zone.
InitialContent == <<"0">>

DomainNames == {"a.example", "c.example"}

ConfigKeys == {"api_token", "zone_id", "domains"}

\* config.json: the keys present and their values (a key that is not
\* present has the empty value).
Configs == { c \in [present : SUBSET ConfigKeys,
                    api_token : {"", "tok"},
                    zone_id : {"", "zone"},
                    domains : SUBSET DomainNames] :
               /\ ("api_token" \notin c.present => c.api_token = "")
               /\ ("zone_id" \notin c.present => c.zone_id = "")
               /\ ("domains" \notin c.present => c.domains = {}) }

\* ------------------------------------------------------------- exceptions
NoExc == [type |-> "", msg |-> ""]

\* requests raised (connection error, timeout) during a provider call.
RequestError == [type |-> "RequestException", msg |-> "connection failed"]

NoIpError == [type |-> "Exception", msg |-> "Could not determine current IP address"]

\* The unpacking or fromisoformat failed on the cache file's content.
StateParseError == [type |-> "ValueError", msg |-> "malformed state"]

GetFailedError == [type |-> "Exception", msg |-> "Failed to get DNS records"]

PostFailedError == [type |-> "Exception", msg |-> "Failed to update DNS records"]

StateWriteError == [type |-> "OSError", msg |-> "cannot open state file"]

\* Line 122 builds its message from self.domain, an attribute __init__
\* never sets (it sets self.domains): evaluating the f-string raises
\* AttributeError before the Exception is constructed.
NoRecordError == [type |-> "AttributeError",
                  msg |-> "object has no attribute 'domain'"]

\* ------------------------------------------------------------------- state
VARIABLES
    config,           \* config.json
    file,             \* last_ip.txt: its text, or NoFile
    dns,              \* the provider's zone: record id -> content
    clock,            \* datetime.now()
    pc,               \* where each process is
    exit_status,      \* the status a process ended with (read when pc = "exited")
    current_ip,       \* run: current_ip
    last_ip,          \* run: last_ip
    et_last_changed,  \* run: et_last_changed
    record_ids,       \* update_dns_records: record_ids
    exc,              \* the exception propagating to run's except clause
    responses,        \* what the echo services answered to the get_current_ip
                      \* call in progress or just returned
    gets,             \* provider GET dns_records requests of this process
    posts,            \* provider POST batch requests of this process
    logs,             \* lines this process printed
    writes,           \* times this process wrote the state file
    raised,           \* the places of this process that raised into run
    caught,           \* times run's except clause ran in this process
    file_at_start,    \* the state file's text when the process started
    last_pushed,      \* content of the latest batch update the provider accepted
    save_failed,      \* some save_current_ip has failed so far
    prev              \* summary of the previous scheduled process

vars == << config, file, dns, clock, pc, exit_status, current_ip, last_ip,
           et_last_changed, record_ids, exc, responses, gets, posts, logs,
           writes, raised, caught, file_at_start, last_pushed, save_failed, prev >>

shared == << config, file, dns, clock, last_pushed, save_failed, prev >>

locals == << current_ip, last_ip, et_last_changed, record_ids, exc >>

observed == << responses, gets, posts, logs, writes, raised, caught, file_at_start >>

NoPrev == [ran |-> FALSE, ip |-> None, provider_failed |-> FALSE]

Init ==
    /\ config \in Configs
    /\ file = NoFile
    /\ dns = [r \in RecordIds |-> InitialContent]
    /\ clock = 0
    /\ pc = [p \in Procs |-> "idle"]
    /\ exit_status = [p \in Procs |-> 0]
    /\ current_ip = [p \in Procs |-> None]
    /\ last_ip = [p \in Procs |-> None]
    /\ et_last_changed = [p \in Procs |-> NoneEt]
    /\ record_ids = [p \in Procs |-> {}]
    /\ exc = [p \in Procs |-> NoExc]
    /\ responses = [p \in Procs |-> <<>>]
    /\ gets = [p \in Procs |-> 0]
    /\ posts = [p \in Procs |-> <<>>]
    /\ logs = [p \in Procs |-> <<>>]
    /\ writes = [p \in Procs |-> 0]
    /\ raised = [p \in Procs |-> <<>>]
    /\ caught = [p \in Procs |-> 0]
    /\ file_at_start = [p \in Procs |-> NoFile]
    /\ last_pushed = None
    /\ save_failed = FALSE
    /\ prev = NoPrev

\* ----------------------------------------------------------------- helpers
Running(p) == pc[p] \notin {"idle", "exited"}

\* Fault: a failed batch update does not stop the run before the state write.
RaiseSwallowed(p, e, site) ==
    /\ exc' = [exc EXCEPT ![p] = e]
    /\ raised' = [raised EXCEPT ![p] = Append(@, site)]
    /\ pc' = [pc EXCEPT ![p] = IF site = "post" THEN "save" ELSE "except"]

\* An exception e raised at place `site` inside run's try block.
Raise(p, e, site) ==
    /\ exc' = [exc EXCEPT ![p] = e]
    /\ raised' = [raised EXCEPT ![p] = Append(@, site)]
    /\ pc' = [pc EXCEPT ![p] = "except"]

\* log_change: one INFO line unless there was no previous IP.
LogChange(cur, last, et) ==
    IF Falsy(last) THEN <<>>
    ELSE << [level |-> "INFO", msg |-> "IP changed", from |-> last, to |-> cur,
             et |-> et] >>

\* Fault: the error is printed by the raiser and again by the handler.
LogErrorTwice(e) ==
    << [level |-> "ERROR", msg |-> e.msg, from |-> None, to |-> None, et |-> NoneEt],
       [level |-> "ERROR", msg |-> e.msg, from |-> None, to |-> None, et |-> NoneEt] >>

\* log_error: one ERROR line with str(e).
LogError(e) ==
    << [level |-> "ERROR", msg |-> e.msg, from |-> None, to |-> None,
        et |-> NoneEt] >>

\* Fault: the check of domains is missing.
ConfigErrorNoDomains(c) ==
    IF "api_token" \notin c.present THEN "KeyError"
    ELSE IF c.api_token = "" THEN "Exception"
    ELSE IF "zone_id" \notin c.present THEN "KeyError"
    ELSE IF c.zone_id = "" THEN "Exception"
    ELSE ""

\* Fault: the constructor's failure is swallowed and run is entered anyway.
ConfigErrorIgnored(c) == ""

\* __init__: "" when the configuration is accepted, else the exception type.
ConfigError(c) ==
    IF "api_token" \notin c.present THEN "KeyError"
    ELSE IF c.api_token = "" THEN "Exception"
    ELSE IF "zone_id" \notin c.present THEN "KeyError"
    ELSE IF c.zone_id = "" THEN "Exception"
    ELSE IF "domains" \notin c.present THEN "KeyError"
    ELSE IF c.domains = {} THEN "Exception"
    ELSE ""

\* get_last_known_ip on the file's text f at time now.
LoadResult(f, now) ==
    IF f = NoFile THEN [ok |-> TRUE, last_ip |-> None, et |-> NoneEt]
    ELSE LET fields == Split(Strip(f)) IN
         IF Len(fields) # 2 THEN [ok |-> FALSE, last_ip |-> None, et |-> NoneEt]
         ELSE IF ~IsIso(fields[2]) THEN [ok |-> FALSE, last_ip |-> None, et |-> NoneEt]
         ELSE [ok |-> TRUE, last_ip |-> fields[1], et |-> now - FromIso(fields[2])]

\* update_dns_records: ids of the A records whose name is configured.
MatchingIds(records, domains) ==
    { r.id : r \in { x \in records : x.type = "A" /\ x.name \in domains } }

\* The batch update applied by the provider.
Patched(d, ids, content) == [r \in RecordIds |-> IF r \in ids THEN content ELSE d[r]]

\* ----------------------------------------------------------------- actions
\* The scheduler (or an operator) launches the program: __main__ begins.
Start(p) ==
    /\ ~Running(p)
    /\ pc' = [pc EXCEPT ![p] = "main"]
    /\ current_ip' = [current_ip EXCEPT ![p] = None]
    /\ last_ip' = [last_ip EXCEPT ![p] = None]
    /\ et_last_changed' = [et_last_changed EXCEPT ![p] = NoneEt]
    /\ record_ids' = [record_ids EXCEPT ![p] = {}]
    /\ exc' = [exc EXCEPT ![p] = NoExc]
    /\ responses' = [responses EXCEPT ![p] = <<>>]
    /\ gets' = [gets EXCEPT ![p] = 0]
    /\ posts' = [posts EXCEPT ![p] = <<>>]
    /\ logs' = [logs EXCEPT ![p] = <<>>]
    /\ writes' = [writes EXCEPT ![p] = 0]
    /\ raised' = [raised EXCEPT ![p] = <<>>]
    /\ caught' = [caught EXCEPT ![p] = 0]
    /\ file_at_start' = [file_at_start EXCEPT ![p] = file]
    /\ UNCHANGED << config, file, dns, clock, exit_status, last_pushed, save_failed >>

\* Non-overlapping scheduling: the next invocation starts only when no
\* process is running.
StartScheduled ==
    /\ \A q \in Procs : ~Running(q)
    /\ Start("Scheduled")
    /\ prev' = [ran |-> pc["Scheduled"] = "exited",
                ip |-> current_ip["Scheduled"],
                provider_failed |-> \E i \in 1..Len(raised["Scheduled"]) :
                                        raised["Scheduled"][i] \in {"get", "post"}]

\* ddns = CloudflareDDNS(): outside any try block, so a rejected
\* configuration ends the process with a traceback and status 1.
Construct(p) ==
    /\ pc[p] = "main"
    /\ IF ConfigError(config) # ""
       THEN /\ pc' = [pc EXCEPT ![p] = "exited"]
            /\ exit_status' = [exit_status EXCEPT ![p] = 1]
       ELSE /\ pc' = [pc EXCEPT ![p] = "detect"]
            /\ UNCHANGED exit_status
    /\ UNCHANGED << shared, locals, observed >>

\* What one echo service may do: raise (connection error, timeout), answer
\* with a status other than 200, or answer 200 with a body.
ServiceOutcomes ==
    { [kind |-> "raise", body |-> <<>>], [kind |-> "status", body |-> <<"1">>] }
    \cup { [kind |-> "ok", body |-> b] : b \in Bodies }

\* Fault: the body is returned as received, not stripped.
AfterServiceNoStrip(i, o) ==
    IF o.kind = "ok" THEN [return |-> TRUE, value |-> o.body]
    ELSE IF i = Len(ip_services) THEN [return |-> TRUE, value |-> None]
    ELSE [return |-> FALSE, value |-> None]

\* get_current_ip after the service at index i answered o: the value
\* returned, or "next" to go on with the following service.
AfterService(i, o) ==
    IF o.kind = "ok" THEN [return |-> TRUE, value |-> Strip(o.body)]
    ELSE IF i = Len(ip_services) THEN [return |-> TRUE, value |-> None]
    ELSE [return |-> FALSE, value |-> None]

\* One iteration of get_current_ip's loop; the service tried is the one
\* after those that already answered.
TryService(p) ==
    /\ pc[p] = "detect"
    /\ \E o \in ServiceOutcomes :
         LET i == Len(responses[p]) + 1
             r == AfterService(i, o) IN
         /\ responses' = [responses EXCEPT ![p] =
                              Append(@, [service |-> ip_services[i],
                                         kind |-> o.kind, body |-> o.body])]
         /\ IF r.return
            THEN /\ current_ip' = [current_ip EXCEPT ![p] = r.value]
                 /\ pc' = [pc EXCEPT ![p] = "check_ip"]
            ELSE UNCHANGED << current_ip, pc >>
    /\ UNCHANGED << shared, exit_status, last_ip, et_last_changed, record_ids, exc,
                    gets, posts, logs, writes, raised, caught, file_at_start >>

\* run: if not current_ip: raise.  The call to get_current_ip is over.
CheckIp(p) ==
    /\ pc[p] = "check_ip"
    /\ IF Falsy(current_ip[p])
       THEN Raise(p, NoIpError, "detect")
       ELSE /\ pc' = [pc EXCEPT ![p] = "load"]
            /\ UNCHANGED << exc, raised >>
    /\ responses' = [responses EXCEPT ![p] = <<>>]
    /\ UNCHANGED << shared, exit_status, current_ip, last_ip, et_last_changed,
                    record_ids, gets, posts, logs, writes, caught, file_at_start >>

\* run: last_ip, et_last_changed = self.get_last_known_ip().
LoadState(p) ==
    /\ pc[p] = "load"
    /\ LET r == LoadResult(file, clock) IN
       IF r.ok
       THEN /\ last_ip' = [last_ip EXCEPT ![p] = r.last_ip]
            /\ et_last_changed' = [et_last_changed EXCEPT ![p] = r.et]
            /\ pc' = [pc EXCEPT ![p] = "compare"]
            /\ UNCHANGED << exc, raised >>
       ELSE /\ Raise(p, StateParseError, "load")
            /\ UNCHANGED << last_ip, et_last_changed >>
    /\ UNCHANGED << shared, exit_status, current_ip, record_ids, responses,
                    gets, posts, logs, writes, caught, file_at_start >>

\* Fault: the update is made on every run.
ChangedAlways(cur, last) == TRUE

\* Fault: the comparison is inverted.
ChangedInverted(cur, last) == cur = last

\* run: the test current_ip != last_ip.
Changed(cur, last) == cur # last

\* run: the comparison, and log_change when the IP changed.
Compare(p) ==
    /\ pc[p] = "compare"
    /\ IF Changed(current_ip[p], last_ip[p])
       THEN /\ logs' = [logs EXCEPT ![p] =
                           @ \o LogChange(current_ip[p], last_ip[p], et_last_changed[p])]
            /\ pc' = [pc EXCEPT ![p] = "get"]
       ELSE /\ pc' = [pc EXCEPT ![p] = "done"]
            /\ UNCHANGED logs
    /\ UNCHANGED << shared, exit_status, locals, responses, gets, posts, writes,
                    raised, caught, file_at_start >>

ProviderOutcomes == {"ok", "status", "raise"}

\* update_dns_records, first half: the GET and the selection of record ids.
GetRecords(p) ==
    /\ pc[p] = "get"
    /\ gets' = [gets EXCEPT ![p] = @ + 1]
    /\ \E o \in ProviderOutcomes :
         CASE o = "raise" ->
                /\ Raise(p, RequestError, "get")
                /\ UNCHANGED record_ids
           [] o = "status" ->
                /\ Raise(p, GetFailedError, "get")
                /\ UNCHANGED record_ids
           [] o = "ok" ->
                LET ids == MatchingIds(ZoneRecords, config.domains) IN
                /\ record_ids' = [record_ids EXCEPT ![p] = ids]
                /\ IF ids = {}
                   THEN Raise(p, NoRecordError, "nomatch")
                   ELSE /\ pc' = [pc EXCEPT ![p] = "post"]
                        /\ UNCHANGED << exc, raised >>
    /\ UNCHANGED << shared, exit_status, current_ip, last_ip, et_last_changed,
                    responses, posts, logs, writes, caught, file_at_start >>

\* Fault: the patches carry the zone's old content instead of new_ip.
BatchRequestStale(ids, new_ip) == [ids |-> ids, content |-> InitialContent]

\* update_dns_records: the body of the batch request, one patch
\* {id, content: new_ip} per selected record.
BatchRequest(ids, new_ip) == [ids |-> ids, content |-> new_ip]

\* update_dns_records, second half: the batch POST.
PostBatch(p) ==
    /\ pc[p] = "post"
    /\ posts' = [posts EXCEPT ![p] =
                    Append(@, BatchRequest(record_ids[p], current_ip[p]))]
    /\ \E o \in ProviderOutcomes :
         CASE o = "raise" ->
                /\ Raise(p, RequestError, "post")
                /\ UNCHANGED << dns, last_pushed >>
           [] o = "status" ->
                /\ Raise(p, PostFailedError, "post")
                /\ UNCHANGED << dns, last_pushed >>
           [] o = "ok" ->
                /\ LET req == BatchRequest(record_ids[p], current_ip[p]) IN
                   /\ dns' = Patched(dns, req.ids, req.content)
                   /\ last_pushed' = req.content
                /\ pc' = [pc EXCEPT ![p] = "save"]
                /\ UNCHANGED << exc, raised >>
    /\ UNCHANGED << config, file, clock, save_failed, prev, exit_status,
                    current_ip, last_ip, et_last_changed, record_ids, responses,
                    gets, logs, writes, caught, file_at_start >>

\* run: self.save_current_ip(current_ip).  The failure modelled is open()
\* raising OSError, which leaves the file as it was.
SaveCurrentIp(p) ==
    /\ pc[p] = "save"
    /\ \E o \in {"ok", "oserror"} :
         IF o = "ok"
         THEN /\ file' = FormatState(current_ip[p], clock)
              /\ writes' = [writes EXCEPT ![p] = @ + 1]
              /\ pc' = [pc EXCEPT ![p] = "done"]
              /\ UNCHANGED << exc, raised, save_failed >>
         ELSE /\ Raise(p, StateWriteError, "save")
              /\ save_failed' = TRUE
              /\ UNCHANGED << file, writes >>
    /\ UNCHANGED << config, dns, clock, last_pushed, prev, exit_status,
                    current_ip, last_ip, et_last_changed, record_ids, responses,
                    gets, posts, logs, caught, file_at_start >>

\* run: except Exception as e: log_error(e).
HandleError(p) ==
    /\ pc[p] = "except"
    /\ logs' = [logs EXCEPT ![p] = @ \o LogError(exc[p])]
    /\ caught' = [caught EXCEPT ![p] = @ + 1]
    /\ exc' = [exc EXCEPT ![p] = NoExc]
    /\ pc' = [pc EXCEPT ![p] = "done"]
    /\ UNCHANGED << shared, exit_status, current_ip, last_ip, et_last_changed,
                    record_ids, responses, gets, posts, writes, raised,
                    file_at_start >>

\* run has returned: the script ends, status 0.
Exit(p) ==
    /\ pc[p] = "done"
    /\ pc' = [pc EXCEPT ![p] = "exited"]
    /\ exit_status' = [exit_status EXCEPT ![p] = 0]
    /\ UNCHANGED << shared, locals, observed >>

\* Time passes.
Tick ==
    /\ clock < MaxClock
    /\ clock' = clock + 1
    /\ UNCHANGED << config, file, dns, last_pushed, save_failed, prev, pc,
                    exit_status, locals, observed >>

Step(p) ==
    \/ Construct(p)
    \/ TryService(p)
    \/ CheckIp(p)
    \/ LoadState(p)
    \/ Compare(p)
    \/ GetRecords(p)
    \/ PostBatch(p)
    \/ SaveCurrentIp(p)
    \/ HandleError(p)
    \/ Exit(p)

\* Runs that never overlap: the intended deployment.
Next ==
    \/ StartScheduled
    \/ \E p \in Procs : Step(p)
    \/ Tick

Spec == Init /\ [][Next]_vars

\* Invocations that may overlap: after any number of scheduled runs a
\* second process starts, at any moment, and nothing in the program keeps it
\* from running while a scheduled one is running.  The overlap is looked at
\* within one clock value.
StartOverlapping(p) ==
    /\ \/ pc[p] = "idle"
       \/ p = "Scheduled" /\ pc["Overlapping"] = "idle"
    /\ Start(p)
    /\ UNCHANGED prev

NextOverlap ==
    \/ \E p \in Procs : StartOverlapping(p)
    \/ \E p \in Procs : Step(p)

SpecOverlap == Init /\ [][NextOverlap]_vars

\* ------------------------------------------------------- observation terms
\* run has returned normally in process p.
RunReturned(p) == pc[p] = "done" \/ (pc[p] = "exited" /\ exit_status[p] = 0)

\* The text f holds a record get_last_known_ip can read.
StateReadable(f) == f # NoFile /\ LoadResult(f, 0).ok

\* The ip of the record in f (None when there is no readable record).
StoredIp(f) == IF StateReadable(f) THEN LoadResult(f, 0).last_ip ELSE None

Sites(p) == { raised[p][i] : i \in 1..Len(raised[p]) }

ErrorLines(p) == { i \in 1..Len(logs[p]) : logs[p][i].level = "ERROR" }

\* A provider call of this process failed (status other than 200, or the
\* request raised).
ProviderFailed(p) == Sites(p) \cap {"get", "post"} # {}

\* The batch update of this process was answered with status 200.
PostSucceeded(p) == Len(posts[p]) > 0 /\ "post" \notin Sites(p)

\* The provider read of this process succeeded and selected some record.
ReadFoundRecords(p) == gets[p] = 1 /\ Sites(p) \cap {"get", "nomatch"} = {}

\* Process p detected a non-empty IP equal to the ip of the state file.
SawSameIp(p) ==
    /\ ~Falsy(current_ip[p])
    /\ StoredIp(file_at_start[p]) = current_ip[p]

\* Process p detected a non-empty IP and the state file was absent or held
\* a different ip.
SawChangedIp(p) ==
    /\ ~Falsy(current_ip[p])
    /\ \/ file_at_start[p] = NoFile
       \/ StateReadable(file_at_start[p]) /\ StoredIp(file_at_start[p]) # current_ip[p]

\* ------------------------------------------------------------------ claims
\* C1: a run whose detected IP is non-empty and equals the ip stored in the
\* state file is a no-op: no provider read, no provider write, no log line,
\* no failure, and the state file's text is left as it was.
C1_UnchangedIpIsNoOp ==
    \A p \in Procs :
        SawSameIp(p) =>
            /\ gets[p] = 0
            /\ posts[p] = <<>>
            /\ logs[p] = <<>>
            /\ writes[p] = 0
            /\ raised[p] = <<>>
            /\ file = file_at_start[p]
            /\ pc[p] \notin {"get", "post", "save", "except"}

C1_Witness ==
    \E p \in Procs :
        /\ SawSameIp(p)
        /\ pc[p] = "exited"
        /\ exit_status[p] = 0
        /\ file = FormatState(<<"1">>, 0)
        /\ clock = 1

\* C2 as stated: a run that sees a changed IP (or no state file) makes
\* exactly one batch update, with the new IP as content, and rewrites the
\* state file only if that update succeeded.
C2_ExactlyOneWrite ==
    \A p \in Procs :
        (RunReturned(p) /\ SawChangedIp(p)) =>
            /\ Len(posts[p]) = 1
            /\ posts[p][1].content = current_ip[p]
            /\ (writes[p] > 0 => PostSucceeded(p))

\* C2 amended: such a run makes exactly one provider read; it makes one
\* batch update, for the matching A records and with the new IP as content,
\* when that read succeeded and found a matching record, and none
\* otherwise; the state file is rewritten, with the new IP, only if the
\* batch update succeeded.
C2_OneWriteAfterGoodRead ==
    \A p \in Procs :
        (RunReturned(p) /\ SawChangedIp(p)) =>
            /\ gets[p] = 1
            /\ Len(posts[p]) = (IF ReadFoundRecords(p) THEN 1 ELSE 0)
            /\ \A i \in 1..Len(posts[p]) :
                 /\ posts[p][i].content = current_ip[p]
                 /\ posts[p][i].ids = { r.id : r \in { x \in ZoneRecords :
                                          x.type = "A" /\ x.name \in config.domains } }
            /\ writes[p] <= 1
            /\ (writes[p] = 1 => PostSucceeded(p))
            /\ (file # file_at_start[p] =>
                   /\ PostSucceeded(p)
                   /\ StoredIp(file) = StoredIp(FormatState(current_ip[p], 0)))

C2_Witness ==
    \E p \in Procs :
        /\ RunReturned(p)
        /\ SawChangedIp(p)
        /\ StateReadable(file_at_start[p])
        /\ Len(posts[p]) = 1
        /\ posts[p][1].ids = {"r1"}
        /\ writes[p] = 1
        /\ StoredIp(file) = current_ip[p]

\* C3: when the provider read or write of a run fails, the state file keeps
\* the text it had (or stays absent); and the next run, when it detects the
\* same IP, attempts the update again (it issues the provider read).
C3_FailedUpdateIsRetried ==
    /\ \A p \in Procs :
         ProviderFailed(p) => (file = file_at_start[p] /\ writes[p] = 0)
    /\ LET p == "Scheduled" IN
       ( /\ prev.ran
         /\ prev.provider_failed
         /\ current_ip[p] = prev.ip
         /\ RunReturned(p) )
       => (gets[p] = 1 /\ SawChangedIp(p))

C3_Witness ==
    LET p == "Scheduled" IN
    /\ prev.ran
    /\ prev.provider_failed
    /\ current_ip[p] = prev.ip
    /\ file_at_start[p] # NoFile
    /\ RunReturned(p)
    /\ PostSucceeded(p)
    /\ writes[p] = 1

\* ip is body without its leading and trailing blanks.
IsTrimOf(ip, body) ==
    /\ ip = <<>> \/ (ip[1] # " " /\ ip[Len(ip)] # " ")
    /\ \E a \in 0..Len(body) :
         /\ a + Len(ip) <= Len(body)
         /\ \A k \in 1..a : body[k] = " "
         /\ \A k \in 1..Len(ip) : body[a + k] = ip[k]
         /\ \A k \in (a + Len(ip) + 1)..Len(body) : body[k] = " "

\* Every service contacted so far failed (raised or answered another status).
AllFailed(rs) == \A i \in 1..Len(rs) : rs[i].kind # "ok"

\* The services were contacted in list order and only the last contacted
\* one may have answered with status 200.
TriedInOrder(rs) ==
    /\ Len(rs) <= Len(ip_services)
    /\ \A i \in 1..Len(rs) : rs[i].service = ip_services[i]
    /\ \A i \in 1..(Len(rs) - 1) : rs[i].kind # "ok"

\* get_current_ip returned v after the answers rs: the trimmed body of the
\* first successful service, later services not contacted; None exactly
\* when every service of the list was contacted and failed.
ReturnedFirstSuccess(rs, v) ==
    /\ TriedInOrder(rs)
    /\ Len(rs) >= 1
    /\ IF rs[Len(rs)].kind = "ok"
       THEN v # None /\ IsTrimOf(v, rs[Len(rs)].body)
       ELSE v = None /\ Len(rs) = Len(ip_services)
    /\ (v = None <=> AllFailed(rs))

\* C4 as stated: get_current_ip tries the services in order, skips the
\* failing ones, returns the trimmed body of the first success, and run
\* reports the detection failure if and only if every service failed.
C4_FailureIffAllFailed ==
    [][ \A p \in Procs :
          /\ pc[p] = "detect" => (TriedInOrder(responses[p]) /\ AllFailed(responses[p]))
          /\ (pc[p] = "check_ip" /\ pc'[p] # "check_ip") =>
                /\ ReturnedFirstSuccess(responses[p], current_ip[p])
                /\ (pc'[p] = "except" <=> AllFailed(responses[p])) ]_vars

\* C4 amended: as above, but run reports the detection failure if and only
\* if every service failed or the first successful service's body is empty
\* after trimming.
C4_FailureIffNoUsableAnswer ==
    [][ \A p \in Procs :
          /\ pc[p] = "detect" => (TriedInOrder(responses[p]) /\ AllFailed(responses[p]))
          /\ (pc[p] = "check_ip" /\ pc'[p] # "check_ip") =>
                /\ ReturnedFirstSuccess(responses[p], current_ip[p])
                /\ pc'[p] \in {"except", "load"}
                /\ (pc'[p] = "except" <=>
                      \/ AllFailed(responses[p])
                      \/ \A k \in 1..Len(responses[p][Len(responses[p])].body) :
                            responses[p][Len(responses[p])].body[k] = " ")
                /\ (pc'[p] = "except" =>
                      /\ exc'[p].msg = "Could not determine current IP address"
                      /\ raised'[p] = <<"detect">>) ]_vars

C4_Witness ==
    \E p \in Procs :
        /\ pc[p] = "check_ip"
        /\ Len(responses[p]) = 3
        /\ responses[p][1].kind = "raise"
        /\ responses[p][2].kind = "status"
        /\ responses[p][3].kind = "ok"
        /\ responses[p][3].body = <<" ", "1", " ">>
        /\ current_ip[p] = <<"1">>

\* Some required key of the configuration is missing or has an empty value.
ConfigInvalid(c) ==
    \/ ConfigKeys \ c.present # {}
    \/ c.api_token = ""
    \/ c.zone_id = ""
    \/ c.domains = {}

\* C5: with a configuration in which api_token, zone_id or domains is
\* missing or empty the construction fails: no echo service and no provider
\* is contacted, the state file is neither read nor written, nothing is
\* logged, and run is not entered.
C5_BadConfigFailsFirst ==
    ConfigInvalid(config) =>
        \A p \in Procs :
            /\ pc[p] \in {"idle", "main", "exited"}
            /\ (pc[p] = "exited" => exit_status[p] # 0)
            /\ responses[p] = <<>>
            /\ gets[p] = 0
            /\ posts[p] = <<>>
            /\ writes[p] = 0
            /\ logs[p] = <<>>
            /\ current_ip[p] = None
            /\ last_ip[p] = None
            /\ file = NoFile
            /\ dns = [r \in RecordIds |-> InitialContent]

C5_Witness ==
    \E p \in Procs :
        /\ pc[p] = "exited"
        /\ exit_status[p] = 1
        /\ config.present = ConfigKeys
        /\ config.api_token # ""
        /\ config.zone_id # ""
        /\ config.domains = {}

\* C6: every failure raised inside run is caught once by run's except
\* clause and gives one ERROR line, after which run returns normally; once
\* a step has failed no later step of that run is made.
C6_FailuresCaughtOnce ==
    \A p \in Procs :
        /\ Len(raised[p]) <= 1
        /\ caught[p] <= Len(raised[p])
        /\ Cardinality(ErrorLines(p)) = caught[p]
        /\ (pc[p] = "except" <=> (Len(raised[p]) = 1 /\ caught[p] = 0))
        /\ (RunReturned(p) => caught[p] = Len(raised[p]))
        /\ (pc[p] = "exited" /\ raised[p] # <<>>) => exit_status[p] = 0
        /\ \A i \in ErrorLines(p) : logs[p][i].msg # ""
        /\ Sites(p) \cap {"detect", "load"} # {} =>
               (gets[p] = 0 /\ posts[p] = <<>> /\ writes[p] = 0)
        /\ Sites(p) \cap {"get", "nomatch"} # {} =>
               (gets[p] = 1 /\ posts[p] = <<>> /\ writes[p] = 0)
        /\ Sites(p) \cap {"post", "save"} # {} =>
               (Len(posts[p]) = 1 /\ writes[p] = 0)
        /\ raised[p] # <<>> => file = file_at_start[p]

C6_Witness ==
    \E p \in Procs :
        /\ raised[p] = <<"load">>
        /\ file = FormatState(<<"1", ",", "2">>, 0)
        /\ pc[p] = "exited"
        /\ exit_status[p] = 0
        /\ Len(logs[p]) = 1
        /\ logs[p][1].level = "ERROR"

\* C7 as stated: the process always ends with exit status 0, configuration
\* errors included.
C7_AlwaysExitsZero ==
    \A p \in Procs : pc[p] = "exited" => exit_status[p] = 0

\* C7 amended: the process ends with exit status 0 for every error raised
\* inside run, each of which is logged; a configuration error, raised by the
\* constructor outside run, ends the process with a nonzero status and no
\* log line.
C7_ExitsZeroUnlessBadConfig ==
    \A p \in Procs :
        pc[p] = "exited" =>
            IF ConfigInvalid(config)
            THEN exit_status[p] # 0 /\ logs[p] = <<>>
            ELSE /\ exit_status[p] = 0
                 /\ Cardinality(ErrorLines(p)) = Len(raised[p])

C7_Witness ==
    \E p \in Procs :
        /\ pc[p] = "exited"
        /\ exit_status[p] = 0
        /\ raised[p] = <<"post">>
        /\ Len(logs[p]) = 2

\* C8: when the provider read succeeds but selects no record, the run
\* reports a descriptive "no A record found" error, issues no batch update
\* and does not write the state file.
C8_NoRecordErrorIsDescriptive ==
    \A p \in Procs :
        ("nomatch" \in Sites(p) /\ RunReturned(p)) =>
            /\ posts[p] = <<>>
            /\ writes[p] = 0
            /\ \E i \in ErrorLines(p) : logs[p][i].msg = "No A record found"

\* C9: overlapping invocations are not kept apart: every run that read a
\* state different from the IP it detected and met no failure has issued
\* its own batch update and made its own state write, whatever the other
\* run did in the meantime; so the state file can end with one run's IP
\* while the zone holds the other's (C9_Witness).
C9_OverlappingRunsBothUpdate ==
    \A p \in Procs :
        ( /\ RunReturned(p)
          /\ raised[p] = <<>>
          /\ ~Falsy(current_ip[p])
          /\ current_ip[p] # last_ip[p] )
        => /\ gets[p] = 1
           /\ Len(posts[p]) = 1
           /\ posts[p][1].content = current_ip[p]
           /\ writes[p] = 1

C9_Witness ==
    \E p, q \in Procs :
        /\ p # q
        /\ \A r \in {p, q} :
             /\ RunReturned(r)
             /\ raised[r] = <<>>
             /\ Len(posts[r]) = 1
             /\ writes[r] = 1
        /\ file_at_start[p] = file_at_start[q]
        /\ file_at_start[p] # NoFile
        /\ current_ip[p] # current_ip[q]
        /\ StoredIp(file) = current_ip[p]
        /\ \A id \in posts[q][1].ids : dns[id] = current_ip[q]

\* No run of the schedule is between its batch update and its state write.
BetweenRuns == \A p \in Procs : pc[p] # "save"

\* C10: over non-overlapping runs that start with no state file, and as
\* long as no state write has failed: between runs a state file that exists
\* holds the content of the latest batch update the provider accepted; and
\* the state file changes only in the step that follows the accepted batch
\* update of the same IP, in the same run.
C10_StateFollowsPush ==
    /\ [] ( (BetweenRuns /\ ~save_failed /\ file # NoFile) =>
               /\ last_pushed # None
               /\ \E n \in 0..MaxClock : file = last_pushed \o <<",">> \o IsoFormat(n) )
    /\ [][ file' # file =>
             \E p \in Procs :
                 /\ pc[p] = "save"
                 /\ PostSucceeded(p)
                 /\ posts[p][Len(posts[p])].content = last_pushed
                 /\ current_ip[p] = last_pushed
                 /\ file' = last_pushed \o <<",">> \o IsoFormat(clock) ]_vars

C10_Witness ==
    LET p == "Scheduled" IN
    /\ prev.ran
    /\ prev.provider_failed
    /\ file_at_start[p] # NoFile
    /\ file # file_at_start[p]
    /\ StoredIp(file) = last_pushed
    /\ pc[p] = "exited"
    /\ ~save_failed

====
